---------------------------- MODULE Spec2Model ----------------------------
(***************************************************************************)
(* Voice sidecar of extensions/discord-voice: the per-speaker capture and  *)
(* turn-segmentation pipeline of DiscordVoiceBot (discord_voice.py).       *)
(*                                                                         *)
(* Time is counted in units of 200 ms, the watchdog's interval: the        *)
(* monotonic clock is the variable clock, SILENCE_THRESHOLD_S (0.8 s) is 4 *)
(* units and WATCHDOG_INTERVAL_S (0.2 s) is 1 unit.                        *)
(*                                                                         *)
(* A PCM fragment is a sequence of 16-bit samples; a frame of the voice    *)
(* connection is a sequence of stereo pairs <<left, right>>.               *)
(***************************************************************************)
EXTENDS Integers, Sequences, FiniteSets, TLC

(***************************************************************************)
(* Bounds of the model.                                                    *)
(***************************************************************************)
MaxTime == 5
MaxFrames == 2
\* Bounds of the single-speaker specification.
MaxTimeSolo == 5
MaxFramesSolo == 4
MaxTimeCrowd == 5
MaxFramesCrowd == 3
MaxTimeLive == 5
MaxFramesLive == 2
MaxTimeFail == 5
MaxFramesFail == 3
MaxTimeIngest == 4
MaxFramesIngest == 2
MaxConns == 2
MaxRequests == 3
MaxPackets == 1
MaxClientFrames == 3
MaxOutbound == 2
MaxWireFrames == 3
MaxTripFrames == 3
MaxNotices == 3
MaxTtsRequests == 1

SessionIds == {"s1", "s2"}
Users == {1, 2}
\* The speakers that send frames: two in one session, and one in another
\* session who has the user id of a speaker of the first.
Speakers == {<<"s1", 1>>, <<"s1", 2>>, <<"s2", 1>>}
\* The VoiceSession objects: at most one per session id exists at a time, and
\* it is named by its id.
Objs == SessionIds
NoObj == "none"
Conns == 1..MaxConns
\* What the packet router hands to the sink: a user, no user, or a bot.
NoUser == 0
BotUser == 3
PacketUsers == Users \cup {NoUser, BotUser}
JoinOutcomes == {"guild_not_found", "channel_not_found", "connect_failed", "connected"}

(***************************************************************************)
(* Program constants (discord_voice.py:25-29).                             *)
(***************************************************************************)
DISCORD_SAMPLE_RATE == 48000
STT_SAMPLE_RATE == 16000
SILENCE_THRESHOLD_S == 4
WATCHDOG_INTERVAL_S == 1
RMS_SPEECH_THRESHOLD == 300

(***************************************************************************)
(* The frames the voice connection delivers in this model.  Each is 48 kHz *)
(* stereo; only the left channel of samples 1, 4, 7, ... survives the      *)
(* conversion of _handle_audio_sync.                                       *)
(*   LOUD   -> <<400>>       rms 400: speech                               *)
(*   LOUD2  -> <<500, 100>>  rms 360: speech                               *)
(*   DIP    -> <<300>>       rms 300: not above the threshold, although    *)
(*                           the right channel and the dropped samples are *)
(*                           loud                                          *)
(*   EMPTY  -> <<>>          rms 0                                         *)
(*   ZERO   -> <<0>>         rms 0                                         *)
(***************************************************************************)
LOUD == << <<400, 0>>, <<0, 0>>, <<0, 0>> >>
LOUD2 == << <<500, 0>>, <<0, 0>>, <<0, 0>>, <<100, 0>> >>
DIP == << <<300, 900>>, <<900, 900>>, <<900, 900>> >>
EMPTY == << >>
ZERO == << <<0, 0>>, <<0, 0>>, <<0, 0>> >>
AllFrames == {LOUD, LOUD2, DIP, EMPTY, ZERO}
Frames == {LOUD, DIP}
SoloFrames == {LOUD2, DIP, EMPTY, ZERO}
IngestFrames == {LOUD, DIP}

VARIABLES
    clock,             \* time.monotonic(), in units of 200 ms
    sessions,          \* DiscordVoiceBot._sessions: an insertion-ordered dict
    obj_session_id,    \* VoiceSession.session_id of each object, "none": no object
    user_audio,        \* VoiceSession.user_audio of each object
    user_last_speech,  \* VoiceSession.user_last_speech: insertion-ordered dict
    user_speaking,     \* VoiceSession.user_speaking of each object
    wd,                \* the watchdog task: its position and its locals
    emitted,           \* per (session, user): the callbacks invoked, in order
    heard,             \* per (session, user): frames processed since the last finalization
    lastSpeechReal,    \* per (session, user): clock of the last speech frame
    phase,             \* per (session, user): progress in the segmentation scenario
    nframes,           \* frames processed for a registered session
    ready,             \* the event loop's callbacks scheduled by call_soon_threadsafe
    produced,          \* per (session id, user): frames the packet router posted
    delivered,         \* per (session id, user): frames _handle_audio_sync was run with
    is_playing,        \* VoiceSession.is_playing of each object
    player,            \* the playback in flight on each voice client, 0: none
    ending,            \* playbacks whose player thread has yet to call `after`
    playlog,           \* per session: the playback events, in order
    writes,            \* the threads that wrote each field of the session state
    tts_call,          \* _handle_play_tts suspended in synthesize
    writer,            \* IpcServer._writer, 0: None
    conn,              \* per connection: its state and its handler's buffer
    wire,              \* per connection: bytes the client sent, not yet read
    sent,              \* per connection: the messages written to it
    handled,           \* per connection: the messages passed to _on_message
    accepted,          \* the number of connections accepted
    client_frames,     \* per connection: the frames its client sent
    bot,               \* VoiceSidecar._bot is set
    tts,               \* VoiceSidecar._tts is set
    stt,               \* VoiceSidecar._stt is set
    shutdown,          \* VoiceSidecar._shutdown is set
    notices            \* the voice_state messages passed to IpcServer.send, in order

progVars == <<sessions, obj_session_id, user_audio, user_last_speech,
              user_speaking, wd>>
ghostVars == <<emitted, heard, lastSpeechReal, phase, nframes>>
coreVars == <<clock, progVars, ghostVars>>
ingestVars == <<ready, produced, delivered>>
playVars == <<is_playing, player, ending, playlog, writes, tts_call>>
ipcVars == <<writer, conn, wire, sent, handled, accepted, client_frames>>
sidecarVars == <<bot, tts, stt, shutdown, notices>>
vars == <<coreVars, ingestVars, playVars, ipcVars, sidecarVars>>

(***************************************************************************)
(* Insertion-ordered dicts, as sequences of records [k, v].                *)
(***************************************************************************)
DictKeys(d) == [i \in 1..Len(d) |-> d[i].k]

DictHas(d, key) == \E i \in 1..Len(d) : d[i].k = key

DictGet(d, key, default) ==
    IF DictHas(d, key)
    THEN d[CHOOSE i \in 1..Len(d) : d[i].k = key].v
    ELSE default

DictSet(d, key, val) ==
    IF DictHas(d, key)
    THEN [i \in 1..Len(d) |-> IF d[i].k = key THEN [k |-> key, v |-> val] ELSE d[i]]
    ELSE Append(d, [k |-> key, v |-> val])

DictDel(d, key) == SelectSeq(d, LAMBDA e : e.k # key)

DictValues(d) == [i \in 1..Len(d) |-> d[i].v]

(***************************************************************************)
(* audioop, as _handle_audio_sync uses it.                                 *)
(***************************************************************************)
\* audioop.tomono(fragment, 2, lfactor, rfactor)
ToMono(stereo, lfactor, rfactor) ==
    [i \in 1..Len(stereo) |-> stereo[i][1] * lfactor + stereo[i][2] * rfactor]

\* audioop.ratecv(fragment, 2, 1, inrate, outrate, None) for inrate a multiple
\* of outrate: with a fresh state the first sample of every group of
\* inrate/outrate samples is written.
RateCv(mono, inrate, outrate) ==
    LET step == inrate \div outrate
        n == (Len(mono) + step - 1) \div step
    IN  [i \in 1..n |-> mono[(i - 1) * step + 1]]

RECURSIVE SumSquares(_)
SumSquares(pcm) ==
    IF pcm = << >> THEN 0 ELSE Head(pcm) * Head(pcm) + SumSquares(Tail(pcm))

ISqrt(q) == CHOOSE r \in 0..32768 : r * r <= q /\ (r + 1) * (r + 1) > q

\* audioop.rms(fragment, 2)
Rms(pcm) ==
    IF Len(pcm) = 0 THEN 0 ELSE ISqrt(SumSquares(pcm) \div Len(pcm))

\* discord_voice.py:204-205
Downsample(pcm_48k_stereo) ==
    RateCv(ToMono(pcm_48k_stereo, 1, 0), DISCORD_SAMPLE_RATE, STT_SAMPLE_RATE)

\* A classifier that counts a frame at the threshold as speech (mutant of
\* IsSpeech).
IsSpeechAtThreshold(pcm_16k) == Rms(pcm_16k) >= RMS_SPEECH_THRESHOLD

\* discord_voice.py:208-209
IsSpeech(pcm_16k) == Rms(pcm_16k) > RMS_SPEECH_THRESHOLD

\* The conversion and classification of each frame, evaluated once.
Pcm16k == [f \in AllFrames |-> Downsample(f)]
Speech == [f \in AllFrames |-> IsSpeech(Pcm16k[f])]


(***************************************************************************)
(* The registry, DiscordVoiceBot._sessions.                                *)
(***************************************************************************)
\* A lookup that ignores the id and takes the first session (mutant of
\* SessionOf).
SessionOfAny(session_id) == IF sessions = << >> THEN NoObj ELSE sessions[1].v

\* self._sessions.get(session_id)
SessionOf(session_id) == DictGet(sessions, session_id, NoObj)

Registered(o) == \E i \in 1..Len(sessions) : sessions[i].v = o

(***************************************************************************)
(* VoiceSession objects.  An object that neither the registry nor the      *)
(* watchdog task refers to any more is unreachable: it is freed, and what  *)
(* was recorded about it is dropped with it.                               *)
(***************************************************************************)
Allocated(o) == obj_session_id[o] # "none"

WatchdogRefs(w) == ({w.session} \cup {w.sessions[i] : i \in 1..Len(w.sessions)}) \ {NoObj}

Garbage(registry, w) ==
    {o \in Objs : /\ Allocated(o)
                  /\ ~\E i \in 1..Len(registry) : registry[i].v = o
                  /\ o \notin WatchdogRefs(w)}

Sweep(field, garbage, fresh) == [o \in Objs |-> IF o \in garbage THEN fresh ELSE field[o]]

NoAudio == [u \in Users |-> << >>]
NotSpeaking == [u \in Users |-> FALSE]
NothingEmitted == [u \in Users |-> << >>]
NothingHeard == [u \in Users |-> << >>]
NeverSpoke == [u \in Users |-> -1]
NoPhase == [u \in Users |-> "none"]

\* The state after a step that changed the registry or the watchdog's
\* references, given the fields as the step's own assignments left them.
SweepAll(registry, w, audio, last_speech, speaking, emit, hrd) ==
    LET g == Garbage(registry, w) IN
    /\ obj_session_id' = Sweep(obj_session_id, g, "none")
    /\ user_audio' = Sweep(audio, g, NoAudio)
    /\ user_last_speech' = Sweep(last_speech, g, << >>)
    /\ user_speaking' = Sweep(speaking, g, NotSpeaking)
    /\ emitted' = Sweep(emit, g, NothingEmitted)
    /\ heard' = Sweep(hrd, g, NothingHeard)
    /\ lastSpeechReal' = Sweep(lastSpeechReal, g, NeverSpoke)
    /\ phase' = Sweep(phase, g, NoPhase)

(***************************************************************************)
(* Specification-only records of what happened to a speaker.               *)
(***************************************************************************)
SpeechStart == [type |-> "speech_start"]
Finalized(frames, now) == [type |-> "finalize", frames |-> frames, now |-> now]
VoiceActivity(is_speaking) == [type |-> "voice_activity", isSpeaking |-> is_speaking]
TranscriptReady(audio) == [type |-> "transcript_ready", audio |-> audio]

\* The frames whose converted audio has an RMS above the speech threshold.
Loud == [f \in AllFrames |-> Rms(Pcm16k[f]) > RMS_SPEECH_THRESHOLD]

HasSpeech(frames) == \E i \in 1..Len(frames) : Loud[frames[i]]

\* The frames from the first speech frame on.
RECURSIVE FromOnset(_)
FromOnset(frames) ==
    IF frames = << >> \/ Loud[Head(frames)] THEN frames ELSE FromOnset(Tail(frames))

\* The converted audio of a sequence of frames.
RECURSIVE ConcatPcm(_)
ConcatPcm(frames) ==
    IF frames = << >> THEN << >> ELSE Pcm16k[Head(frames)] \o ConcatPcm(Tail(frames))

CountOf(log, type) == Cardinality({i \in 1..Len(log) : log[i].type = type})

\* The scenario of the segmentation property: a run of speech frames, a dip of
\* non-speech frames, speech again within the threshold, then the final run
\* without speech.  "off" is every other history.
NextPhase(ph, is_speech, gap) ==
    CASE ph = "none" -> IF is_speech THEN "speech1" ELSE "none"
      [] ph = "speech1" ->
            IF ~is_speech THEN "dip"
            ELSE IF gap < SILENCE_THRESHOLD_S THEN "speech1" ELSE "off"
      [] ph = "dip" ->
            IF ~is_speech THEN "dip"
            ELSE IF gap < SILENCE_THRESHOLD_S THEN "speech2" ELSE "off"
      [] ph = "speech2" ->
            IF ~is_speech THEN "final"
            ELSE IF gap < SILENCE_THRESHOLD_S THEN "speech2" ELSE "off"
      [] ph = "final" -> IF is_speech THEN "off" ELSE "final"
      [] OTHER -> "off"

(***************************************************************************)
(* _handle_audio_sync (discord_voice.py:189-220).                          *)
(***************************************************************************)
\* A speaking flag that follows the classification of the last frame (mutant
\* of SpeakingAfterFrame).
SpeakingFollowsFrame(speaking, is_speech) == is_speech

\* lines 212-215: the speaking flag after a frame
SpeakingAfterFrame(speaking, is_speech) == IF is_speech THEN TRUE ELSE speaking

\* A timestamp taken at the onset only (mutant of LastSpeechAfterFrame).
LastSpeechAtOnsetOnly(last_speech, user_id, is_speech, now) ==
    IF is_speech /\ ~DictHas(last_speech, user_id)
    THEN DictSet(last_speech, user_id, now)
    ELSE last_speech

\* lines 212, 216: user_last_speech after a frame
LastSpeechAfterFrame(last_speech, user_id, is_speech, now) ==
    IF is_speech THEN DictSet(last_speech, user_id, now) ELSE last_speech

\* Buffering that keeps only the frames classified as speech (mutant of
\* AudioAfterFrame).
AudioAfterFrameSpeechOnly(audio, speaking, pcm_16k) ==
    IF speaking /\ IsSpeech(pcm_16k) THEN audio \o pcm_16k ELSE audio

\* lines 219-220: the buffer after a frame
AudioAfterFrame(audio, speaking, pcm_16k) ==
    IF speaking THEN audio \o pcm_16k ELSE audio

HandleAudio(session_id, user_id, f) ==
    LET session == SessionOf(session_id) IN
    IF session = NoObj
    THEN UNCHANGED coreVars
    ELSE
      LET pcm_16k == Pcm16k[f]
          is_speech == Speech[f]
          now == clock
          speaking == SpeakingAfterFrame(user_speaking[session][user_id], is_speech)
      IN  /\ user_speaking' = [user_speaking EXCEPT ![session][user_id] = speaking]
          /\ user_last_speech' =
                [user_last_speech EXCEPT ![session] =
                    LastSpeechAfterFrame(@, user_id, is_speech, now)]
          /\ user_audio' =
                [user_audio EXCEPT ![session][user_id] =
                    AudioAfterFrame(@, speaking, pcm_16k)]
          \* what is recorded about the frame, under the ids it came with
          /\ nframes' = nframes + 1
          /\ heard' = [heard EXCEPT ![session_id][user_id] = Append(@, f)]
          /\ emitted' = [emitted EXCEPT ![session_id][user_id] =
                IF Loud[f] /\ ~HasSpeech(heard[session_id][user_id])
                THEN Append(@, SpeechStart) ELSE @]
          /\ lastSpeechReal' = [lastSpeechReal EXCEPT ![session_id][user_id] =
                IF Loud[f] THEN clock ELSE @]
          /\ phase' = [phase EXCEPT ![session_id][user_id] =
                NextPhase(@, Loud[f], clock - lastSpeechReal[session_id][user_id])]
          /\ UNCHANGED <<clock, sessions, obj_session_id, wd>>

(***************************************************************************)
(* _watchdog_loop (discord_voice.py:222-258).                              *)
(***************************************************************************)
\* A watchdog whose threshold is its own interval (mutant of ShouldFinalize).
ShouldFinalizeAfterInterval(has_audio, elapsed) ==
    has_audio /\ elapsed >= WATCHDOG_INTERVAL_S

\* A test that is met only at the threshold itself (mutant of ShouldFinalize).
ShouldFinalizeAtThreshold(has_audio, elapsed) ==
    has_audio /\ elapsed = SILENCE_THRESHOLD_S

\* line 236
ShouldFinalize(has_audio, elapsed) == has_audio /\ elapsed >= SILENCE_THRESHOLD_S

\* lines 230-236: the scan from a position of the two loops up to the next
\* speaker to finalize, or to the end of the scan.  The keys of a session's
\* user_last_speech are listed when the outer loop reaches that session.
RECURSIVE ScanFrom(_, _, _, _)
ScanFrom(now, sess_rest, session, user_rest) ==
    IF user_rest # << >>
    THEN LET user_id == Head(user_rest)
             last == DictGet(user_last_speech[session], user_id, 0)
             elapsed == now - last
             has_audio == user_audio[session][user_id] # << >>
         IN  IF ShouldFinalize(has_audio, elapsed)
             THEN [found |-> TRUE, sessions |-> sess_rest, session |-> session,
                   users |-> Tail(user_rest), user |-> user_id]
             ELSE ScanFrom(now, sess_rest, session, Tail(user_rest))
    ELSE IF sess_rest # << >>
    THEN ScanFrom(now, Tail(sess_rest), Head(sess_rest),
                  DictKeys(user_last_speech[Head(sess_rest)]))
    ELSE [found |-> FALSE]

\* A finalization that leaves the speaking flag set (mutant of FinalizeState).
FinalizeStateKeepsSpeaking(audio, last_speech, user_id) ==
    [audio |-> << >>, speaking |-> TRUE, last_speech |-> DictDel(last_speech, user_id)]

\* A finalization that copies the buffer and clears nothing (mutant of
\* FinalizeState).
FinalizeStateNoCleanup(audio, last_speech, user_id) ==
    [audio |-> audio, speaking |-> FALSE, last_speech |-> last_speech]

\* lines 238-241: what a finalization leaves of the speaker's state
FinalizeState(audio, last_speech, user_id) ==
    [audio |-> << >>, speaking |-> FALSE, last_speech |-> DictDel(last_speech, user_id)]

\* line 227: the task suspended in asyncio.sleep(WATCHDOG_INTERVAL_S)
Sleeping(now) ==
    [pc |-> "sleep", wake |-> clock + WATCHDOG_INTERVAL_S, now |-> now,
     sessions |-> << >>, session |-> NoObj, users |-> << >>, user |-> 0,
     audio |-> << >>]

\* lines 237-256: the finalization of one speaker up to its first await, or
\* line 227 when the scan found no one.
ContinueScan(now, sess_rest, session, user_rest) ==
    LET r == ScanFrom(now, sess_rest, session, user_rest) IN
    IF ~r.found
    THEN /\ wd' = Sleeping(now)
         /\ SweepAll(sessions, wd', user_audio, user_last_speech, user_speaking,
                     emitted, heard)
    ELSE LET o == r.session
             u == r.user
             audio == user_audio[o][u]
             was_speaking == user_speaking[o][u]
             done == Finalized(heard[o][u], now)
             after == FinalizeState(audio, user_last_speech[o], u)
         IN  /\ wd' = [pc |-> IF was_speaking THEN "voice_activity" ELSE "transcript_ready",
                       wake |-> 0, now |-> now, sessions |-> r.sessions,
                       session |-> o, users |-> r.users, user |-> u, audio |-> audio]
             /\ SweepAll(sessions, wd',
                   [user_audio EXCEPT ![o][u] = after.audio],
                   [user_last_speech EXCEPT ![o] = after.last_speech],
                   [user_speaking EXCEPT ![o][u] = after.speaking],
                   [emitted EXCEPT ![o][u] =
                       IF was_speaking
                       THEN @ \o <<done, VoiceActivity(FALSE)>>
                       ELSE @ \o <<done, TranscriptReady(audio)>>],
                   [heard EXCEPT ![o][u] = << >>])

\* lines 227-230: the sleep ends, the clock is read, the sessions are listed
WatchdogWake ==
    /\ wd.pc = "sleep"
    /\ clock >= wd.wake
    /\ ContinueScan(clock, DictValues(sessions), NoObj, << >>)
    /\ UNCHANGED <<clock, sessions, nframes>>

\* lines 227-230 at a time the clock of the model cannot show: MaxTimeLive
\* stands for every later time, and the sleep that began there ends there.
WatchdogWakeLate ==
    /\ wd.pc = "sleep"
    /\ clock = MaxTimeLive
    /\ wd.wake > MaxTimeLive
    /\ ContinueScan(clock, DictValues(sessions), NoObj, << >>)
    /\ UNCHANGED <<clock, sessions, nframes>>

\* lines 251-256: on_voice_activity returns, on_transcript_ready is called
VoiceActivityReturns ==
    /\ wd.pc = "voice_activity"
    /\ wd' = [wd EXCEPT !.pc = "transcript_ready"]
    /\ emitted' = [emitted EXCEPT ![wd.session][wd.user] =
                      Append(@, TranscriptReady(wd.audio))]
    /\ UNCHANGED <<clock, sessions, obj_session_id, user_audio,
                   user_speaking, user_last_speech, heard, lastSpeechReal,
                   phase, nframes>>

\* An exception of on_voice_activity that nothing catches: the watchdog
\* task ends (mutant of VoiceActivityRaises).
VoiceActivityRaisesUncaught ==
    /\ wd.pc = "voice_activity"
    /\ wd' = [wd EXCEPT !.pc = "dead"]
    /\ UNCHANGED <<clock, sessions, obj_session_id, user_audio, user_speaking,
                   user_last_speech, ghostVars>>

\* lines 251 and 257-258: on_voice_activity raises; the exception is logged,
\* on_transcript_ready is not called, and the loops go on
VoiceActivityRaises ==
    /\ wd.pc = "voice_activity"
    /\ ContinueScan(wd.now, wd.sessions, wd.session, wd.users)
    /\ UNCHANGED <<clock, sessions, nframes>>

\* lines 254-258: on_transcript_ready returns or raises; the loops go on
TranscriptReadyDone ==
    /\ wd.pc = "transcript_ready"
    /\ ContinueScan(wd.now, wd.sessions, wd.session, wd.users)
    /\ UNCHANGED <<clock, sessions, nframes>>

(***************************************************************************)
(* join and leave (discord_voice.py:88-154).                               *)
(***************************************************************************)
\* lines 88-147.  Only a join whose guild and channel are found and whose
\* channel.connect returns constructs a session that is registered (line 138)
\* and starts the watchdog (lines 141-142); every other outcome only reports
\* an error.  channel.connect raises while the guild has a voice client, so a
\* join connects only when no session of that id exists.
Join(session_id, outcome) ==
    IF outcome = "connected"
    THEN /\ ~Allocated(session_id)
         /\ obj_session_id' = [obj_session_id EXCEPT ![session_id] = session_id]
         /\ sessions' = DictSet(sessions, session_id, session_id)
         /\ wd' = IF wd.pc = "none" THEN Sleeping(0) ELSE wd
         /\ UNCHANGED <<clock, user_audio, user_last_speech, user_speaking, ghostVars>>
    ELSE UNCHANGED coreVars

\* lines 149-154
Leave(session_id) ==
    /\ sessions' = DictDel(sessions, session_id)
    /\ SweepAll(sessions', wd, user_audio, user_last_speech, user_speaking,
                emitted, heard)
    /\ UNCHANGED <<clock, wd, nframes>>

\* time passes
Tick ==
    /\ clock' = clock + 1
    /\ UNCHANGED <<progVars, ghostVars>>

Init ==
    /\ clock = 0
    /\ sessions = << >>
    /\ obj_session_id = [o \in Objs |-> "none"]
    /\ user_audio = [o \in Objs |-> NoAudio]
    /\ user_last_speech = [o \in Objs |-> << >>]
    /\ user_speaking = [o \in Objs |-> NotSpeaking]
    /\ wd = [pc |-> "none", wake |-> 0, now |-> 0, sessions |-> << >>,
             session |-> NoObj, users |-> << >>, user |-> 0, audio |-> << >>]
    /\ emitted = [o \in Objs |-> NothingEmitted]
    /\ heard = [o \in Objs |-> NothingHeard]
    /\ lastSpeechReal = [o \in Objs |-> NeverSpoke]
    /\ phase = [o \in Objs |-> NoPhase]
    /\ nframes = 0
    /\ ready = << >>
    /\ produced = [s \in SessionIds |-> [u \in Users |-> << >>]]
    /\ delivered = [s \in SessionIds |-> [u \in Users |-> << >>]]
    /\ is_playing = [o \in Objs |-> FALSE]
    /\ player = [o \in Objs |-> 0]
    /\ ending = {}
    /\ playlog = [o \in Objs |-> << >>]
    /\ writes = {}
    /\ tts_call = [pc |-> "idle", session |-> "none"]
    /\ writer = 0
    /\ conn = [c \in Conns |-> [state |-> "unused", pc |-> "read", eof |-> FALSE,
                                 buf |-> << >>]]
    /\ wire = [c \in Conns |-> << >>]
    /\ sent = [c \in Conns |-> << >>]
    /\ handled = [c \in Conns |-> << >>]
    /\ accepted = 0
    /\ client_frames = [c \in Conns |-> << >>]
    /\ bot = FALSE
    /\ tts = FALSE
    /\ stt = FALSE
    /\ shutdown = FALSE
    /\ notices = << >>

\* A step of the voice bot alone: the rest of the sidecar stays as it is.
Apart == UNCHANGED <<ingestVars, playVars, ipcVars, sidecarVars>>

\* __main__.py:145-155: the bot exists from the first join request on
BotJoin(session_id, outcome) ==
    /\ Join(session_id, outcome)
    /\ bot' = TRUE
    /\ UNCHANGED <<ingestVars, playVars, ipcVars, tts, stt, shutdown, notices>>

Next ==
    \/ clock < MaxTime /\ Tick /\ Apart
    \/ \E sp \in Speakers, f \in Frames :
          nframes < MaxFrames /\ HandleAudio(sp[1], sp[2], f) /\ Apart
    \/ WatchdogWake /\ Apart
    \/ VoiceActivityReturns /\ Apart
    \/ TranscriptReadyDone /\ Apart
    \/ \E session_id \in SessionIds, outcome \in JoinOutcomes : BotJoin(session_id, outcome)
    \/ \E session_id \in SessionIds : Leave(session_id) /\ Apart

Spec == Init /\ [][Next]_vars

\* One speaker of one session, with every kind of frame.
NextSolo ==
    \/ clock < MaxTimeSolo /\ Tick /\ Apart
    \/ \E f \in SoloFrames : nframes < MaxFramesSolo /\ HandleAudio("s1", 1, f) /\ Apart
    \/ WatchdogWake /\ Apart
    \/ VoiceActivityReturns /\ Apart
    \/ TranscriptReadyDone /\ Apart
    \/ \E outcome \in JoinOutcomes : BotJoin("s1", outcome)
    \/ Leave("s1") /\ Apart

SpecSolo == Init /\ [][NextSolo]_vars

(***************************************************************************)
(* The audio sink (discord_voice.py:117-135): the packet-router thread      *)
(* posts each frame to the event loop, which runs the posted callbacks in   *)
(* the order of its queue.                                                  *)
(***************************************************************************)
\* A scheduling that puts the callback before the ones waiting (mutant of
\* CallSoonThreadsafe).
CallSoonAtFront(queue, callback) == <<callback>> \o queue

\* lines 129-131: loop.call_soon_threadsafe appends to the loop's queue
CallSoonThreadsafe(queue, callback) == Append(queue, callback)

NumProduced ==
    LET RECURSIVE Sum(_)
        Sum(S) == IF S = {} THEN 0
                  ELSE LET x == CHOOSE y \in S : TRUE
                       IN  Len(produced[x[1]][x[2]]) + Sum(S \ {x})
    IN  Sum(SessionIds \X Users)

\* lines 120-131, on the packet-router thread, while the sink of the session
\* listens
AudioCallback(session_id, user, f) ==
    /\ SessionOf(session_id) # NoObj
    /\ IF user = NoUser \/ user = BotUser
       THEN UNCHANGED <<ready, produced>>
       ELSE /\ ready' = CallSoonThreadsafe(ready, <<session_id, user, f>>)
            /\ produced' = [produced EXCEPT ![session_id][user] = Append(@, f)]
    /\ UNCHANGED <<coreVars, delivered, playVars, ipcVars, sidecarVars>>

\* the event loop runs the first callback of its queue: lines 189-220
LoopRunsAudio ==
    /\ ready # << >>
    /\ LET callback == Head(ready) IN
       /\ HandleAudio(callback[1], callback[2], callback[3])
       /\ delivered' = [delivered EXCEPT ![callback[1]][callback[2]] =
                           Append(@, callback[3])]
    /\ ready' = Tail(ready)
    /\ UNCHANGED <<produced, playVars, ipcVars, sidecarVars>>

\* One session with two speakers, its frames posted by the packet-router
\* thread while the loop runs the watchdog and the join and leave requests.
NextIngest ==
    \/ clock < MaxTimeIngest /\ Tick /\ Apart
    \/ \E user \in PacketUsers, f \in IngestFrames :
          NumProduced < MaxFramesIngest /\ AudioCallback("s1", user, f)
    \/ LoopRunsAudio
    \/ WatchdogWake /\ Apart
    \/ VoiceActivityReturns /\ Apart
    \/ TranscriptReadyDone /\ Apart
    \/ BotJoin("s1", "connected")
    \/ Leave("s1") /\ Apart

SpecIngest == Init /\ [][NextIngest]_vars

(***************************************************************************)
(* Playback (discord_voice.py:156-187, __main__.py:99-127 and 161-180).    *)
(* The player is the voice client's: VoiceClient.play raises while a       *)
(* player is playing and when the audio cannot be started, and otherwise   *)
(* starts a player thread; that thread calls `after` when it ends, whether *)
(* the source was exhausted, an error occurred or stop() was called.       *)
(* VoiceClient.stop() ends the player: is_playing() is false from then on  *)
(* and no further packet is sent.                                          *)
(***************************************************************************)
Threads == {"loop", "player_thread"}

\* The entries of playlog.
PlayTtsEntry(interrupt, stopped) ==
    [type |-> "play_tts", interrupt |-> interrupt, stopped |-> stopped]
InterruptEntry(stopped, has_bot, known) ==
    [type |-> "interrupt", stopped |-> stopped, bot |-> has_bot, known |-> known]
PlayEntry(id, was, started) ==
    [type |-> "play", id |-> id, was |-> was, started |-> started]
PacketEntry(id) == [type |-> "packet", id |-> id]

NumLogged(types) ==
    LET RECURSIVE Sum(_)
        Sum(S) == IF S = {} THEN 0
                  ELSE LET s == CHOOSE y \in S : TRUE
                       IN  Cardinality({i \in 1..Len(playlog[s]) :
                                           playlog[s][i].type \in types})
                           + Sum(S \ {s})
    IN  Sum(SessionIds)

\* The playback state the loop's playback calls read and write.
PlayState == [is_playing |-> is_playing, player |-> player, ending |-> ending,
              writes |-> writes]

\* The playback in flight on the voice client of a session id, 0: none
Playing(session_id) ==
    IF SessionOf(session_id) = NoObj THEN 0 ELSE player[SessionOf(session_id)]

\* VoiceClient.stop(): the player ends and its thread has `after` to call
VcStop(st, session) ==
    [st EXCEPT !.player[session] = 0,
               !.ending = @ \cup {[session |-> session, id |-> st.player[session]]}]

\* A stop that leaves the flag as it is (mutant of StopPlayback).
StopPlaybackKeepsFlag(st, session_id) ==
    LET session == SessionOf(session_id) IN
    IF session # NoObj /\ st.player[session] # 0
    THEN VcStop(st, session)
    ELSE st

\* A stop that does not ask the voice client whether it is playing (mutant
\* of StopPlayback).
StopPlaybackUnguarded(st, session_id) ==
    LET session == SessionOf(session_id) IN
    IF session # NoObj
    THEN [VcStop(st, session) EXCEPT
             !.is_playing[session] = FALSE,
             !.writes = @ \cup {<<"is_playing", "loop">>}]
    ELSE st

\* discord_voice.py:182-187
StopPlayback(st, session_id) ==
    LET session == SessionOf(session_id) IN
    IF session # NoObj /\ st.player[session] # 0
    THEN [VcStop(st, session) EXCEPT
             !.is_playing[session] = FALSE,
             !.writes = @ \cup {<<"is_playing", "loop">>}]
    ELSE st

\* discord_voice.py:156-180.  The flag is set (line 173) before
\* voice_client.play is called (line 180); play raises when a player is
\* playing, and when start_ok is false.
PlayPcm(st, session_id, id, start_ok) ==
    LET session == SessionOf(session_id) IN
    IF session = NoObj
    THEN st
    ELSE [st EXCEPT
             !.is_playing[session] = TRUE,
             !.writes = @ \cup {<<"is_playing", "loop">>},
             !.player[session] = IF @ = 0 /\ start_ok THEN id ELSE @]

SetPlayState(st) ==
    /\ is_playing' = st.is_playing
    /\ player' = st.player
    /\ ending' = st.ending
    /\ writes' = st.writes

\* __main__.py:99-127: the STT and TTS clients are created
HandleConfigure ==
    /\ tts' = TRUE
    /\ stt' = TRUE
    /\ UNCHANGED <<coreVars, ingestVars, playVars, ipcVars, bot, shutdown, notices>>

\* __main__.py:178-180
HandleInterrupt(session_id) ==
    /\ SetPlayState(IF bot THEN StopPlayback(PlayState, session_id) ELSE PlayState)
    /\ playlog' = [playlog EXCEPT ![session_id] =
                      Append(@, InterruptEntry(IF bot THEN Playing(session_id) ELSE 0,
                                               bot, SessionOf(session_id) # NoObj))]
    /\ UNCHANGED <<coreVars, ingestVars, tts_call, ipcVars, sidecarVars>>

\* __main__.py:161-171, up to the await of synthesize
HandlePlayTts(session_id, text, interrupt) ==
    /\ tts_call.pc = "idle"
    /\ IF text = "" \/ ~tts \/ ~bot
       THEN UNCHANGED playVars
       ELSE /\ SetPlayState(IF interrupt THEN StopPlayback(PlayState, session_id)
                            ELSE PlayState)
            /\ playlog' = [playlog EXCEPT ![session_id] =
                              Append(@, PlayTtsEntry(interrupt,
                                  IF interrupt THEN Playing(session_id) ELSE 0))]
            /\ tts_call' = [pc |-> "synth", session |-> session_id]
    /\ UNCHANGED <<coreVars, ingestVars, ipcVars, sidecarVars>>

\* __main__.py:172-173: synthesize returns and play_pcm is called; what
\* play raises is caught at line 175
SynthesizeReturns(start_ok) ==
    /\ tts_call.pc = "synth"
    /\ LET session_id == tts_call.session
           id == NumLogged({"play"}) + 1
           st == PlayPcm(PlayState, session_id, id, start_ok)
       IN  /\ SetPlayState(st)
           /\ playlog' = [playlog EXCEPT ![session_id] =
                             Append(@, PlayEntry(id, Playing(session_id),
                                                 Playing(session_id) = 0 /\ start_ok
                                                 /\ SessionOf(session_id) # NoObj))]
    /\ tts_call' = [pc |-> "idle", session |-> "none"]
    /\ UNCHANGED <<coreVars, ingestVars, ipcVars, sidecarVars>>

\* __main__.py:172 and 175-176: synthesize raises
SynthesizeRaises ==
    /\ tts_call.pc = "synth"
    /\ tts_call' = [pc |-> "idle", session |-> "none"]
    /\ UNCHANGED <<coreVars, ingestVars, is_playing, player, ending, playlog,
                   writes, ipcVars, sidecarVars>>

\* the player thread sends a packet of the source
PlayerSends(session) ==
    /\ player[session] # 0
    /\ playlog' = [playlog EXCEPT ![session] = Append(@, PacketEntry(player[session]))]
    /\ UNCHANGED <<coreVars, ingestVars, is_playing, player, ending, writes,
                   tts_call, ipcVars, sidecarVars>>

\* the player thread ends by itself: the source is exhausted, or sending
\* raised
PlayerEnds(session) ==
    /\ player[session] # 0
    /\ player' = [player EXCEPT ![session] = 0]
    /\ ending' = ending \cup {[session |-> session, id |-> player[session]]}
    /\ UNCHANGED <<coreVars, ingestVars, is_playing, playlog, writes, tts_call,
                   ipcVars, sidecarVars>>

\* discord_voice.py:175-178, called by the player thread of playback e
AfterPlay(e) ==
    /\ e \in ending
    /\ ending' = ending \ {e}
    /\ is_playing' = [is_playing EXCEPT ![e.session] = FALSE]
    /\ writes' = writes \cup {<<"is_playing", "player_thread">>}
    /\ UNCHANGED <<coreVars, ingestVars, player, playlog, tts_call, ipcVars,
                   sidecarVars>>

\* One joined session and one that is never joined, and the playback
\* requests for both.
NextPlay ==
    \/ HandleConfigure
    \/ BotJoin("s1", "connected")
    \/ \E session_id \in SessionIds :
          /\ NumLogged({"play_tts", "interrupt"}) < MaxRequests
          /\ HandleInterrupt(session_id)
    \/ \E session_id \in SessionIds, text \in {"", "hi"}, interrupt \in BOOLEAN :
          /\ NumLogged({"play_tts", "interrupt"}) < MaxRequests
          /\ HandlePlayTts(session_id, text, interrupt)
    \/ \E start_ok \in BOOLEAN : SynthesizeReturns(start_ok)
    \/ SynthesizeRaises
    \/ \E session \in Objs :
          NumLogged({"packet"}) < MaxPackets /\ PlayerSends(session)
    \/ \E session \in Objs : PlayerEnds(session)
    \/ \E e \in ending : AfterPlay(e)

SpecPlay == Init /\ [][NextPlay]_vars

(***************************************************************************)
(* The control channel (ipc_server.py).  A byte is a number in 0..255, a   *)
(* payload and a buffer are sequences of bytes.  The payloads of this      *)
(* model are JSON objects with string members, or are not JSON at all;     *)
(* their bytes are ASCII, or 255, which no UTF-8 text contains.  Of JSON's *)
(* white space the texts hold only spaces, of its escapes \" and \\.       *)
(***************************************************************************)
HEADER_SIZE == 4

KeyType == <<116, 121, 112, 101>>  \* "type"
TypeConfigure == <<99, 111, 110, 102, 105, 103, 117, 114, 101>>  \* "configure"
TypeJoinVoice == <<106, 111, 105, 110, 95, 118, 111, 105, 99, 101>>  \* "join_voice"
TypeLeaveVoice == <<108, 101, 97, 118, 101, 95, 118, 111, 105, 99, 101>>  \* "leave_voice"
TypePlayTts == <<112, 108, 97, 121, 95, 116, 116, 115>>  \* "play_tts"
TypeInterrupt == <<105, 110, 116, 101, 114, 114, 117, 112, 116>>  \* "interrupt"
TypeShutdown == <<115, 104, 117, 116, 100, 111, 119, 110>>  \* "shutdown"
TypeOther == <<120>>  \* "x"

\* struct.pack(">I", n)
Pack(n) == <<(n \div 16777216) % 256, (n \div 65536) % 256, (n \div 256) % 256, n % 256>>

\* struct.unpack(">I", header)
Unpack(header) ==
    ((header[1] * 256 + header[2]) * 256 + header[3]) * 256 + header[4]

\* the text {"type":"<msg_type>"}
TypedMessage(msg_type) == <<123, 34>> \o KeyType \o <<34, 58, 34>> \o msg_type \o <<34, 125>>

\* the text {}
EmptyObject == <<123, 125>>

\* payload.decode("utf-8") returns, for the bytes of this model
Utf8Decodes(payload) == \A i \in 1..Len(payload) : payload[i] < 128

JsonError == [ok |-> FALSE, members |-> << >>]

\* the index of the first byte from index i on that is not a space
RECURSIVE SkipSpace(_, _)
SkipSpace(text, i) ==
    IF i <= Len(text) /\ text[i] = 32 THEN SkipSpace(text, i + 1) ELSE i

StringError == [ok |-> FALSE, value |-> << >>, next |-> 0]

\* the characters of the string whose opening quote precedes index i, and
\* the index after its closing quote; \" and \\ stand for a quote and a
\* backslash, and a control character ends the scan with an error
RECURSIVE StringFrom(_, _)
StringFrom(text, i) ==
    IF i > Len(text) \/ text[i] < 32 THEN StringError
    ELSE IF text[i] = 34 THEN [ok |-> TRUE, value |-> << >>, next |-> i + 1]
    ELSE IF text[i] = 92
    THEN IF i + 1 > Len(text) \/ text[i + 1] \notin {34, 92} THEN StringError
         ELSE LET rest == StringFrom(text, i + 2) IN
              IF rest.ok THEN [rest EXCEPT !.value = <<text[i + 1]>> \o @]
              ELSE StringError
    ELSE LET rest == StringFrom(text, i + 1) IN
         IF rest.ok THEN [rest EXCEPT !.value = <<text[i]>> \o @]
         ELSE StringError

\* the members "key": "value" of an object from index i to the closing
\* brace, as a dict: a key that occurs again replaces the earlier one
RECURSIVE Members(_, _)
Members(text, i) ==
    IF i > Len(text) \/ text[i] # 34 THEN JsonError
    ELSE LET key == StringFrom(text, i + 1)
             colon == SkipSpace(text, key.next) IN
    IF ~key.ok \/ colon > Len(text) \/ text[colon] # 58 THEN JsonError
    ELSE LET quote == SkipSpace(text, colon + 1) IN
    IF quote > Len(text) \/ text[quote] # 34 THEN JsonError
    ELSE LET val == StringFrom(text, quote + 1)
             sep == SkipSpace(text, val.next) IN
    IF ~val.ok \/ sep > Len(text) THEN JsonError
    ELSE LET member == [k |-> key.value, v |-> val.value] IN
    IF text[sep] = 125
    THEN IF SkipSpace(text, sep + 1) = Len(text) + 1
         THEN [ok |-> TRUE, members |-> <<member>>]
         ELSE JsonError
    ELSE IF text[sep] = 44
    THEN LET rest == Members(text, SkipSpace(text, sep + 1)) IN
         IF ~rest.ok THEN JsonError
         ELSE IF DictHas(rest.members, member.k) THEN rest
         ELSE [ok |-> TRUE, members |-> <<member>> \o rest.members]
    ELSE JsonError

\* json.loads(text): the dict, or JSONDecodeError
JsonLoads(text) ==
    LET brace == SkipSpace(text, 1) IN
    IF brace > Len(text) \/ text[brace] # 123 THEN JsonError
    ELSE LET first == SkipSpace(text, brace + 1) IN
    IF first <= Len(text) /\ text[first] = 125
    THEN IF SkipSpace(text, first + 1) = Len(text) + 1
         THEN [ok |-> TRUE, members |-> << >>]
         ELSE JsonError
    ELSE Members(text, first)

\* A text in which no character of a string is escaped (mutant of Escaped).
EscapedNothing(string) == string

\* json.dumps of a string, without its quotes: a quote and a backslash are
\* preceded by a backslash
RECURSIVE Escaped(_)
Escaped(string) ==
    IF string = << >> THEN << >>
    ELSE (IF Head(string) \in {34, 92} THEN <<92, Head(string)>>
          ELSE <<Head(string)>>) \o Escaped(Tail(string))

Quoted(string) == <<34>> \o Escaped(string) \o <<34>>

\* the members of a dict as json.dumps writes them, ": " after a key and
\* ", " between two members
RECURSIVE Items(_)
Items(msg) ==
    IF msg = << >> THEN << >>
    ELSE Quoted(msg[1].k) \o <<58, 32>> \o Quoted(msg[1].v)
         \o (IF Len(msg) > 1 THEN <<44, 32>> \o Items(Tail(msg)) ELSE << >>)

\* json.dumps(msg, ensure_ascii=False).encode("utf-8")
JsonDumps(msg) == <<123>> \o Items(msg) \o <<125>>

\* ipc_server.py:22-25
EncodeMessage(msg) == Pack(Len(JsonDumps(msg))) \o JsonDumps(msg)

\* ipc_server.py:121: the message of a payload, unless decoding raises
Decode(payload) ==
    IF Utf8Decodes(payload) THEN JsonLoads(payload) ELSE JsonError

\* A dispatch that shuts the sidecar down on a type it does not know (mutant
\* of Route).
RouteDefaultShutdown(msg) ==
    LET msg_type == DictGet(msg, KeyType, << >>) IN
    CASE msg_type = TypeConfigure -> "configure"
      [] msg_type = TypeJoinVoice -> "join_voice"
      [] msg_type = TypeLeaveVoice -> "leave_voice"
      [] msg_type = TypePlayTts -> "play_tts"
      [] msg_type = TypeInterrupt -> "interrupt"
      [] OTHER -> "shutdown"

\* __main__.py:78-95: the branch of the match statement a message takes
Route(msg) ==
    LET msg_type == DictGet(msg, KeyType, << >>) IN
    CASE msg_type = TypeConfigure -> "configure"
      [] msg_type = TypeJoinVoice -> "join_voice"
      [] msg_type = TypeLeaveVoice -> "leave_voice"
      [] msg_type = TypePlayTts -> "play_tts"
      [] msg_type = TypeInterrupt -> "interrupt"
      [] msg_type = TypeShutdown -> "shutdown"
      [] OTHER -> "unknown"

\* The frames a client sends: a record of its payload and of the length
\* its header declares.
Frame(payload, declared) == [payload |-> payload, declared |-> declared]

\* the bytes of a frame, as the peer's encode_message (ipc_server.py:22-25)
\* lays them out: the header, then the payload
FrameBytes(frame) == Pack(frame.declared) \o frame.payload
WellFormedFrame(frame) ==
    frame.declared = Len(frame.payload) /\ Decode(frame.payload).ok

Whole(payload) == Frame(payload, Len(payload))

\* well-formed messages: the control messages without other members, a
\* type that is not known, and an object without type
ControlFrames ==
    {Whole(TypedMessage(TypeConfigure)), Whole(TypedMessage(TypeShutdown)),
     Whole(TypedMessage(TypeInterrupt)), Whole(TypedMessage(TypeLeaveVoice)),
     Whole(TypedMessage(TypeJoinVoice)), Whole(TypedMessage(TypePlayTts)),
     Whole(TypedMessage(TypeOther)), Whole(EmptyObject)}

\* a well-formed message, and the protocol errors: not JSON, not UTF-8, no
\* payload, and a header that declares more than the payload
WireFrames ==
    {Whole(EmptyObject), Whole(<<120>>), Whole(<<255>>), Whole(<< >>),
     Frame(EmptyObject, Len(EmptyObject) + 1)}

OutboundTypes == {"voice_state", "voice_activity", "transcript"}

\* The new writer is ignored while a client is connected (mutant of
\* WriterAfterAccept).
WriterKeptOnAccept(old, new) == IF old # 0 THEN old ELSE new

\* ipc_server.py:98
WriterAfterAccept(old, new) == new

\* ipc_server.py:67-74: the message is written to the writer, or dropped
Written(w, msg) ==
    IF w = 0 THEN sent ELSE [sent EXCEPT ![w] = Append(@, msg)]

\* ipc_server.py:88-103: the server accepts a connection and starts its
\* handler, which closes the writer in place, takes its own and sends ready
Accept ==
    /\ accepted < MaxConns
    /\ LET c == accepted + 1
           w == WriterAfterAccept(writer, c)
       IN  /\ accepted' = c
           /\ conn' = [k \in Conns |->
                         IF k = c
                         THEN [state |-> "serving", pc |-> "read", eof |-> FALSE,
                               buf |-> << >>]
                         ELSE IF k = writer THEN [conn[k] EXCEPT !.eof = TRUE]
                         ELSE conn[k]]
           /\ writer' = w
           /\ sent' = Written(w, "ready")
    /\ UNCHANGED <<coreVars, ingestVars, playVars, wire, handled, client_frames,
                   sidecarVars>>

\* the client writes a frame to its socket
ClientSends(c, frame) ==
    /\ conn[c].state = "serving"
    /\ ~conn[c].eof
    /\ wire' = [wire EXCEPT ![c] = @ \o FrameBytes(frame)]
    /\ client_frames' = [client_frames EXCEPT ![c] = Append(@, frame)]
    /\ UNCHANGED <<coreVars, ingestVars, playVars, writer, conn, sent, handled,
                   accepted, sidecarVars>>

\* the client closes its socket
ClientDisconnects(c) ==
    /\ conn[c].state = "serving"
    /\ ~conn[c].eof
    /\ conn' = [conn EXCEPT ![c].eof = TRUE]
    /\ UNCHANGED <<coreVars, ingestVars, playVars, writer, wire, sent, handled,
                   accepted, client_frames, sidecarVars>>

\* ipc_server.py:108-111: reader.read returns n bytes
ReadChunk(c, n) ==
    /\ conn[c].state = "serving"
    /\ conn[c].pc = "read"
    /\ n \in 1..Len(wire[c])
    /\ conn' = [conn EXCEPT ![c].buf = @ \o SubSeq(wire[c], 1, n),
                            ![c].pc = "parse"]
    /\ wire' = [wire EXCEPT ![c] = SubSeq(@, n + 1, Len(@))]
    /\ UNCHANGED <<coreVars, ingestVars, playVars, writer, sent, handled,
                   accepted, client_frames, sidecarVars>>

\* ipc_server.py:108-110 and 129-131: reader.read returns no bytes, the
\* loop is left and the finally clause runs
HandlerExits(c) ==
    /\ conn[c].state = "serving"
    /\ conn[c].pc = "read"
    /\ wire[c] = << >>
    /\ conn[c].eof
    /\ conn' = [conn EXCEPT ![c].state = "done"]
    /\ writer' = 0
    /\ UNCHANGED <<coreVars, ingestVars, playVars, wire, sent, handled,
                   accepted, client_frames, sidecarVars>>

\* __main__.py:76-95 for a message that has no member but its type.
\* join_voice and play_tts read msg["sessionId"] first, leave_voice and
\* interrupt read it when the bot exists: the KeyError is caught and logged
\* by the connection handler (ipc_server.py:125-126).
HandleIpcMessage(msg) ==
    LET route == Route(msg) IN
    /\ tts' = IF route = "configure" THEN TRUE ELSE tts
    /\ stt' = IF route = "configure" THEN TRUE ELSE stt
    /\ shutdown' = IF route = "shutdown" THEN TRUE ELSE shutdown
    /\ UNCHANGED <<coreVars, ingestVars, playVars, writer, sent, accepted, bot,
                   notices>>

\* ipc_server.py:113-126: one turn of the inner loop.  The loop is left
\* when the buffer holds no whole frame; a payload that does not decode is
\* logged and dropped; a message is passed to _on_message.
ParseFrame(c) ==
    /\ conn[c].state = "serving"
    /\ conn[c].pc = "parse"
    /\ LET buf == conn[c].buf
           msg_len == Unpack(SubSeq(buf, 1, HEADER_SIZE))
       IN  IF Len(buf) < HEADER_SIZE \/ Len(buf) < HEADER_SIZE + msg_len
           THEN /\ conn' = [conn EXCEPT ![c].pc = "read"]
                /\ UNCHANGED <<coreVars, ingestVars, playVars, writer, sent,
                               handled, accepted, sidecarVars>>
           ELSE LET payload == SubSeq(buf, HEADER_SIZE + 1, HEADER_SIZE + msg_len)
                    decoded == Decode(payload)
                IN  /\ conn' = [conn EXCEPT ![c].buf =
                                   SubSeq(buf, HEADER_SIZE + msg_len + 1, Len(buf))]
                    /\ IF decoded.ok
                       THEN /\ HandleIpcMessage(decoded.members)
                            /\ handled' = [handled EXCEPT ![c] =
                                              Append(@, decoded.members)]
                       ELSE UNCHANGED <<coreVars, ingestVars, playVars, writer,
                                        sent, handled, accepted, sidecarVars>>
    /\ UNCHANGED <<wire, client_frames>>

\* ipc_server.py:67-78, called by the callbacks of the bot (__main__.py:
\* 184-216).  Without a writer the message is dropped; when the client of
\* the writer is gone, write and drain either return or raise.
Send(msg, raises) ==
    /\ IF writer # 0 /\ raises
       THEN /\ conn[writer].eof
            /\ writer' = 0
            /\ UNCHANGED sent
       ELSE /\ sent' = Written(writer, msg)
            /\ UNCHANGED writer
    /\ UNCHANGED <<coreVars, ingestVars, playVars, conn, wire, handled, accepted,
                   client_frames, sidecarVars>>

NumOutbound ==
    LET RECURSIVE Sum(_)
        Sum(S) == IF S = {} THEN 0
                  ELSE LET c == CHOOSE y \in S : TRUE
                       IN  Len(SelectSeq(sent[c], LAMBDA m : m # "ready"))
                           + Sum(S \ {c})
    IN  Sum(Conns)

\* Clients that connect one after the other and leave, while the callbacks
\* of the bot send their messages.
NextIpc ==
    \/ Accept
    \/ \E c \in Conns : ClientDisconnects(c)
    \/ \E c \in Conns : HandlerExits(c)
    \/ \E msg \in OutboundTypes, raises \in BOOLEAN :
          NumOutbound < MaxOutbound /\ Send(msg, raises)

SpecIpc == Init /\ [][NextIpc]_vars

\* One client that sends control messages in whole frames, which the
\* handler reads in one piece, while a session is joined.
NextDispatch ==
    \/ accepted = 0 /\ Accept
    \/ \E frame \in ControlFrames :
          Len(client_frames[1]) < MaxClientFrames /\ ClientSends(1, frame)
    \/ ReadChunk(1, Len(wire[1]))
    \/ ParseFrame(1)
    \/ BotJoin("s1", "connected")

SpecDispatch == Init /\ [][NextDispatch]_vars

\* One client that sends frames, protocol errors among them, which reach
\* the handler in pieces of any size.
NextWire ==
    \/ accepted = 0 /\ Accept
    \/ \E frame \in WireFrames :
          Len(client_frames[1]) < MaxWireFrames /\ ClientSends(1, frame)
    \/ \E n \in 1..Len(wire[1]) : ReadChunk(1, n)
    \/ ParseFrame(1)
    \/ ClientDisconnects(1)
    \/ HandlerExits(1)

SpecWire == Init /\ [][NextWire]_vars

\* The messages of the round trip: the empty mapping, a value that is a
\* quote, a value that is a backslash, and two members, one a space.
TripMessages ==
    {<< >>,
     <<[k |-> <<116>>, v |-> <<34>>]>>,
     <<[k |-> <<116>>, v |-> <<92>>]>>,
     <<[k |-> KeyType, v |-> TypeOther], [k |-> <<97>>, v |-> <<32>>]>>}

\* what the peer writes: the encodings of the messages, and a header that
\* declares no payload
TripFrames ==
    {Whole(JsonDumps(msg)) : msg \in TripMessages} \cup {Whole(<< >>)}

\* One client that sends encoded messages, which reach the handler in
\* pieces of any size.
NextTrip ==
    \/ accepted = 0 /\ Accept
    \/ \E frame \in TripFrames :
          Len(client_frames[1]) < MaxTripFrames /\ ClientSends(1, frame)
    \/ \E n \in 1..Len(wire[1]) : ReadChunk(1, n)
    \/ ParseFrame(1)

SpecTrip == Init /\ [][NextTrip]_vars

(***************************************************************************)
(* Join and leave requests and what they report (__main__.py:129-159 and   *)
(* 208-216, discord_voice.py:88-154).  Every state change of the bot is    *)
(* passed to IpcServer.send as a voice_state message by _on_voice_state.   *)
(***************************************************************************)
\* __main__.py:208-216: error is a reason, or "none" for None
VoiceState(session_id, state, error) ==
    [type |-> "voice_state", sessionId |-> session_id, state |-> state,
     error |-> error]

\* A join that reports connected without having reported connecting (mutant
\* of JoinNotices).
JoinNoticesNoConnecting(session_id, outcome) ==
    CASE outcome = "guild_not_found" ->
            <<VoiceState(session_id, "error", "Guild not found")>>
      [] outcome = "channel_not_found" ->
            <<VoiceState(session_id, "error", "Voice channel not found")>>
      [] outcome = "connect_failed" ->
            <<VoiceState(session_id, "connecting", "none"),
              VoiceState(session_id, "error", "str(exc)")>>
      [] outcome = "connected" ->
            <<VoiceState(session_id, "connected", "none")>>

\* discord_voice.py:93-103 and 144-147: the state changes a join reports
JoinNotices(session_id, outcome) ==
    CASE outcome = "guild_not_found" ->
            <<VoiceState(session_id, "error", "Guild not found")>>
      [] outcome = "channel_not_found" ->
            <<VoiceState(session_id, "error", "Voice channel not found")>>
      [] outcome = "connect_failed" ->
            <<VoiceState(session_id, "connecting", "none"),
              VoiceState(session_id, "error", "str(exc)")>>
      [] outcome = "connected" ->
            <<VoiceState(session_id, "connecting", "none"),
              VoiceState(session_id, "connected", "none")>>

\* __main__.py:129-155.  The token is the message's, or the one kept since
\* the bot was started; without any, the error is reported by the handler
\* itself and the bot is not asked.
HandleJoin(session_id, has_token, outcome) ==
    IF ~has_token /\ ~bot
    THEN /\ notices' = Append(notices,
                          VoiceState(session_id, "error", "No bot token provided"))
         /\ UNCHANGED <<coreVars, ingestVars, playVars, ipcVars, bot, tts, stt,
                        shutdown>>
    ELSE /\ Join(session_id, outcome)
         /\ bot' = TRUE
         /\ notices' = notices \o JoinNotices(session_id, outcome)
         /\ UNCHANGED <<ingestVars, playVars, ipcVars, tts, stt, shutdown>>

\* __main__.py:157-159 and discord_voice.py:149-154
HandleLeave(session_id) ==
    IF bot
    THEN /\ Leave(session_id)
         /\ notices' = Append(notices, VoiceState(session_id, "disconnected", "none"))
         /\ UNCHANGED <<ingestVars, playVars, ipcVars, bot, tts, stt, shutdown>>
    ELSE UNCHANGED vars

\* Join and leave requests for two session ids, with every outcome, and
\* play_tts requests whose synthesis or playback may fail.
NextJoin ==
    \/ \E session_id \in SessionIds, has_token \in BOOLEAN, outcome \in JoinOutcomes :
          Len(notices) < MaxNotices /\ HandleJoin(session_id, has_token, outcome)
    \/ \E session_id \in SessionIds :
          Len(notices) < MaxNotices /\ HandleLeave(session_id)
    \/ HandleConfigure
    \/ \E interrupt \in BOOLEAN :
          /\ NumLogged({"play_tts"}) < MaxTtsRequests
          /\ HandlePlayTts("s1", "hi", interrupt)
    \/ \E start_ok \in BOOLEAN : SynthesizeReturns(start_ok)
    \/ SynthesizeRaises

SpecJoin == Init /\ [][NextJoin]_vars

\* The speaker of the session has spoken and awaits finalization.
MidUtterance(session_id, user_id) ==
    SessionOf(session_id) # NoObj /\ user_speaking[SessionOf(session_id)][user_id]

\* Two sessions that are joined at the start and stay joined, and the frames
\* of their three speakers: speech, and dips in the course of an utterance.
NextCrowd ==
    \/ clock < MaxTimeCrowd /\ Tick /\ Apart
    \/ \E sp \in Speakers, f \in Frames :
          /\ nframes < MaxFramesCrowd
          /\ f = DIP => MidUtterance(sp[1], sp[2])
          /\ HandleAudio(sp[1], sp[2], f) /\ Apart
    \/ WatchdogWake /\ Apart
    \/ VoiceActivityReturns /\ Apart
    \/ TranscriptReadyDone /\ Apart
    \/ \E session_id \in SessionIds :
          clock = 0 /\ BotJoin(session_id, "connected")

SpecCrowd == Init /\ [][NextCrowd]_vars

\* Sessions that are joined and stay joined, with a watchdog that goes on
\* scanning after the last time of the model, with time passing, the watchdog
\* task scheduled and the callbacks it awaits returning.
NextLive ==
    \/ clock < MaxTimeLive /\ Tick /\ Apart
    \/ \E sp \in Speakers :
          nframes < MaxFramesLive /\ HandleAudio(sp[1], sp[2], LOUD) /\ Apart
    \/ WatchdogWake /\ Apart
    \/ WatchdogWakeLate /\ Apart
    \/ VoiceActivityReturns /\ Apart
    \/ TranscriptReadyDone /\ Apart
    \/ \E session_id \in SessionIds : BotJoin(session_id, "connected")

SpecLive ==
    /\ Init
    /\ [][NextLive]_vars
    /\ WF_vars(clock < MaxTimeLive /\ Tick /\ Apart)
    /\ WF_vars(WatchdogWake /\ Apart)
    /\ WF_vars(WatchdogWakeLate /\ Apart)
    /\ WF_vars(VoiceActivityReturns /\ Apart)
    /\ WF_vars(TranscriptReadyDone /\ Apart)


\* Sessions that are joined and stay joined, with callbacks that fail: the
\* voice-activity notification returns or raises.
NextFail ==
    \/ clock < MaxTimeFail /\ Tick /\ Apart
    \/ \E sp \in Speakers :
          nframes < MaxFramesFail /\ HandleAudio(sp[1], sp[2], LOUD) /\ Apart
    \/ WatchdogWake /\ Apart
    \/ VoiceActivityReturns /\ Apart
    \/ VoiceActivityRaises /\ Apart
    \/ TranscriptReadyDone /\ Apart
    \/ \E session_id \in SessionIds :
          clock = 0 /\ BotJoin(session_id, "connected")

SpecFail == Init /\ [][NextFail]_vars


(***************************************************************************)
(* Properties.                                                             *)
(***************************************************************************)
NumFinalized(o, u) == CountOf(emitted[o][u], "finalize")
NumUtterances(o, u) == CountOf(emitted[o][u], "transcript_ready")

\* The speaker's frames so far are the segmentation scenario up to its second
\* speech run or beyond.
InScenario(o, u) == phase[o][u] \in {"speech2", "final"}

\* A scan that read the clock at or after the end of the speaker's silence
\* threshold has run to its end.
ScanCompletedAfterSilence(o, u) ==
    /\ wd.pc = "sleep"
    /\ wd.now >= lastSpeechReal[o][u] + SILENCE_THRESHOLD_S
    /\ Registered(o)

\* C1: in the scenario speech, dip shorter than the threshold, speech, silence,
\* at most one finalization of the speaker ever happens, it happens only after
\* the last speech frame and the threshold, and once a scan that started after
\* the threshold has completed exactly one utterance has been handed to the
\* STT callback.
C1_OneFinalizePerScenario ==
    \A o \in Objs, u \in Users :
        InScenario(o, u) =>
            /\ NumFinalized(o, u) <= 1
            /\ NumUtterances(o, u) <= NumFinalized(o, u)
            /\ NumFinalized(o, u) = 1 =>
                  /\ ~HasSpeech(heard[o][u])
                  /\ clock >= lastSpeechReal[o][u] + SILENCE_THRESHOLD_S
            /\ ScanCompletedAfterSilence(o, u) => NumUtterances(o, u) = 1

C1_Witness ==
    \E o \in Objs, u \in Users :
        /\ phase[o][u] = "speech2"
        /\ ScanCompletedAfterSilence(o, u)
        /\ NumUtterances(o, u) = 1

\* The frames of the utterance handed over by entry i of a speaker's log: the
\* frames of the last finalization before it.
UtteranceFrames(log, i) ==
    log[CHOOSE j \in 1..(i - 1) :
            /\ log[j].type = "finalize"
            /\ \A k \in (j + 1)..(i - 1) : log[k].type # "finalize"].frames

\* The frames up to the last speech frame.
RECURSIVE UpToLastSpeech(_)
UpToLastSpeech(frames) ==
    IF frames = << >> \/ Loud[frames[Len(frames)]]
    THEN frames
    ELSE UpToLastSpeech(SubSeq(frames, 1, Len(frames) - 1))

\* C2 as stated: in the scenario the utterance handed over is the audio of the
\* frames from the first up to the last speech frame, and nothing else.
C2_UtteranceEndsAtLastSpeech ==
    \A o \in Objs, u \in Users :
        InScenario(o, u) =>
            \A i \in 1..Len(emitted[o][u]) :
                emitted[o][u][i].type = "transcript_ready" =>
                    emitted[o][u][i].audio =
                        ConcatPcm(UpToLastSpeech(FromOnset(UtteranceFrames(emitted[o][u], i))))

\* C2 as amended: in the scenario the utterance handed over is the audio of
\* every frame of the speaker processed from the first speech frame up to the
\* finalization: the dip, and also the non-speech frames of the final silence
\* run that were processed before the finalizing scan.
C2_UtteranceIsAllFramesSinceOnset ==
    \A o \in Objs, u \in Users :
        InScenario(o, u) =>
            \A i \in 1..Len(emitted[o][u]) :
                emitted[o][u][i].type = "transcript_ready" =>
                    emitted[o][u][i].audio =
                        ConcatPcm(FromOnset(UtteranceFrames(emitted[o][u], i)))

C2_Witness ==
    \E o \in Objs, u \in Users :
        /\ phase[o][u] = "final"
        /\ \E i \in 1..Len(emitted[o][u]) :
              /\ emitted[o][u][i].type = "transcript_ready"
              /\ LET fr == UtteranceFrames(emitted[o][u], i) IN
                 /\ Len(fr) = 4
                 /\ Loud[fr[1]] /\ ~Loud[fr[2]] /\ Loud[fr[3]] /\ ~Loud[fr[4]]
                 /\ emitted[o][u][i].audio = ConcatPcm(fr)
                 /\ Len(emitted[o][u][i].audio) > 4

NumOnsetNotifications(o, u) ==
    Cardinality({i \in 1..Len(emitted[o][u]) :
                    emitted[o][u][i] = VoiceActivity(TRUE)})

\* C3 as stated: every IDLE -> SPEAKING transition of a speaker has emitted
\* exactly one voice-activity notification with isSpeaking = true, and there
\* is no other such notification.
C3_OnsetNotifiedOncePerTransition ==
    \A o \in Objs, u \in Users :
        NumOnsetNotifications(o, u) = CountOf(emitted[o][u], "speech_start")

\* C4: a buffer is non-empty only while its speaker is speaking; and from a
\* finalization until the next speech frame of that speaker is processed, the
\* callbacks of the finalization awaiting or not, the buffer is empty and the
\* speaker is not speaking.
C4_BufferOnlyWhileSpeaking ==
    \A o \in Objs, u \in Users :
        /\ user_audio[o][u] # << >> => user_speaking[o][u]
        /\ ~HasSpeech(heard[o][u]) =>
              user_audio[o][u] = << >> /\ ~user_speaking[o][u]

\* A new utterance of the speaker has begun while the callbacks of its
\* finalization are awaiting.
C4_Witness ==
    /\ wd.pc \in {"voice_activity", "transcript_ready"}
    /\ HasSpeech(heard[wd.session][wd.user])
    /\ user_audio[wd.session][wd.user] = ConcatPcm(heard[wd.session][wd.user])
    /\ user_speaking[wd.session][wd.user]

IsPrefix(a, b) == Len(a) <= Len(b) /\ SubSeq(b, 1, Len(a)) = a

NumCallbacks(log) == CountOf(log, "voice_activity") + CountOf(log, "transcript_ready")

\* C5: a step that processes a frame clears no buffer, resets no speaking
\* flag, removes no lastSpeechTime entry and invokes no callback; a step that
\* does one of these to a session that exists afterwards is a step of the
\* watchdog.
C5_OnlyWatchdogFinalizes ==
    [][\A o \in Objs, u \in Users :
          LET effect ==
                \/ ~IsPrefix(user_audio[o][u], user_audio'[o][u])
                \/ user_speaking[o][u] /\ ~user_speaking'[o][u]
                \/ DictHas(user_last_speech[o], u) /\ ~DictHas(user_last_speech'[o], u)
                \/ NumCallbacks(emitted'[o][u]) # NumCallbacks(emitted[o][u])
          IN  /\ nframes' # nframes => ~effect
              /\ effect /\ obj_session_id'[o] # "none" =>
                    wd.pc # "none" /\ wd' # wd]_vars

\* A non-speech frame was processed for a speaking speaker and kept.
C5_Witness ==
    \E o \in Objs, u \in Users :
        /\ user_speaking[o][u]
        /\ DictHas(user_last_speech[o], u)
        /\ Len(heard[o][u]) >= 2
        /\ ~Loud[heard[o][u][Len(heard[o][u])]]
        /\ user_audio[o][u] = ConcatPcm(heard[o][u])

\* C7: a speaker is finalized only when the time since the speaker's most
\* recent speech frame has reached the silence threshold.
C7_NoPrematureFinalization ==
    [][\A o \in Objs, u \in Users :
          CountOf(emitted'[o][u], "finalize") > CountOf(emitted[o][u], "finalize") =>
              clock - lastSpeechReal[o][u] >= SILENCE_THRESHOLD_S]_vars

\* The scan is suspended in a callback and a speaker it has still to examine
\* spoke after the scan read the clock.
C7_Witness ==
    /\ wd.pc \in {"voice_activity", "transcript_ready"}
    /\ \E i \in 1..Len(wd.users) :
          /\ DictGet(user_last_speech[wd.session], wd.users[i], 0) > wd.now
          /\ user_audio[wd.session][wd.users[i]] # << >>

\* C8: a speaker none of whose frames had an RMS above the threshold has an
\* empty buffer, is not speaking, has no lastSpeechTime entry, and nothing was
\* emitted for it: no onset, no finalization, no callback.
C8_NoSpuriousFinalize ==
    \A o \in Objs, u \in Users :
        lastSpeechReal[o][u] = -1 =>
            /\ user_audio[o][u] = << >>
            /\ ~user_speaking[o][u]
            /\ ~DictHas(user_last_speech[o], u)
            /\ emitted[o][u] = << >>

\* Frames at the threshold, of silence and empty were processed for a speaker
\* and a scan later than the silence threshold has completed.
C8_Witness ==
    \E o \in Objs, u \in Users :
        /\ lastSpeechReal[o][u] = -1
        /\ \E i, j, k \in 1..Len(heard[o][u]) :
              heard[o][u][i] = DIP /\ heard[o][u][j] = EMPTY /\ heard[o][u][k] = ZERO
        /\ wd.pc = "sleep"
        /\ wd.now >= SILENCE_THRESHOLD_S

\* The speaker was finalized, the callbacks of the finalization were invoked,
\* and no speech frame of the speaker was processed since.
IdleAfterFinalize(o, u) ==
    /\ NumFinalized(o, u) >= 1
    /\ NumUtterances(o, u) = NumFinalized(o, u)
    /\ ~HasSpeech(heard[o][u])

\* C9: a step of the watchdog emits nothing for a speaker that is idle after a
\* finalization and leaves that speaker's state as it is.
C9_IdempotentSilence ==
    [][\A o \in Objs, u \in Users :
          IdleAfterFinalize(o, u) /\ wd' # wd /\ obj_session_id'[o] # "none" =>
              /\ emitted'[o][u] = emitted[o][u]
              /\ user_audio'[o][u] = user_audio[o][u]
              /\ user_speaking'[o][u] = user_speaking[o][u]
              /\ DictHas(user_last_speech'[o], u) = DictHas(user_last_speech[o], u)]_vars

\* A scan that began after the speaker's finalization has completed.
C9_Witness ==
    \E o \in Objs, u \in Users :
        /\ IdleAfterFinalize(o, u)
        /\ wd.pc = "sleep"
        /\ \E i \in 1..Len(emitted[o][u]) :
              emitted[o][u][i].type = "finalize" /\ emitted[o][u][i].now < wd.now

\* C10: every utterance handed over for a speaker is the audio of the frames
\* that came for that (session, speaker), in their order, from the onset; and
\* a step that finalizes one speaker changes no other speaker's buffer,
\* speaking flag or lastSpeechTime.
C10_UtterancesOwnFrames ==
    \A o \in Objs, u \in Users :
        \A i \in 1..Len(emitted[o][u]) :
            emitted[o][u][i].type = "transcript_ready" =>
                emitted[o][u][i].audio =
                    ConcatPcm(FromOnset(UtteranceFrames(emitted[o][u], i)))

C10_FinalizeTouchesOneSpeaker ==
    \A o \in Objs, u \in Users :
        CountOf(emitted'[o][u], "finalize") > CountOf(emitted[o][u], "finalize") =>
            \A o2 \in Objs, u2 \in Users :
                <<o2, u2>> # <<o, u>> /\ obj_session_id'[o2] # "none" =>
                    /\ user_audio'[o2][u2] = user_audio[o2][u2]
                    /\ user_speaking'[o2][u2] = user_speaking[o2][u2]
                    /\ DictGet(user_last_speech'[o2], u2, -1) =
                          DictGet(user_last_speech[o2], u2, -1)

C10_CrossSpeakerIsolation ==
    [](C10_UtterancesOwnFrames) /\ [][C10_FinalizeTouchesOneSpeaker]_vars

\* Utterances of interleaved frames were handed over for two speakers of one
\* session and for a speaker of another.
C10_Witness ==
    \E u1, u2 \in Users, o1, o2 \in Objs :
        /\ u1 # u2 /\ o1 # o2
        /\ NumUtterances(o1, u1) >= 1
        /\ NumUtterances(o1, u2) >= 1
        /\ NumUtterances(o2, u1) >= 1

\* Every speaking episode of the speaker was finalized: the offset was
\* notified, the utterance was handed over, the buffer is empty and the
\* speaker is idle.
AllFinalized(o, u) ==
    /\ NumFinalized(o, u) >= 1
    /\ NumUtterances(o, u) = NumFinalized(o, u)
    /\ CountOf(emitted[o][u], "voice_activity") = NumFinalized(o, u)
    /\ emitted[o][u][Len(emitted[o][u])].type = "transcript_ready"
    /\ user_audio[o][u] = << >>
    /\ ~user_speaking[o][u]
    /\ ~DictHas(user_last_speech[o], u)

\* The speaker of a joined session spoke, its most recent speech frame came
\* early enough for the silence threshold to pass within the time of the
\* model, and a speaking episode of it is not yet finalized.
AwaitsFinalization(o, u) ==
    /\ Registered(o)
    /\ lastSpeechReal[o][u] \in 0..(MaxTimeLive - SILENCE_THRESHOLD_S)
    /\ ~AllFinalized(o, u)

\* C6: no speaker of a joined session stays speaking and unfinalized for ever
\* once its speech frames have stopped: whenever a speaker awaits its
\* finalization, the finalization and its two callbacks eventually happen (or
\* a later speech frame of the speaker is processed); for every speaker of
\* every session.
C6_FinalizationLiveness ==
    \A sp \in Speakers : []<>(~AwaitsFinalization(sp[1], sp[2]))

\* A speaker has been finalized in a scan that finalized another speaker
\* before it.
C6_Witness ==
    \E sp \in Speakers :
        /\ AllFinalized(sp[1], sp[2])
        /\ Registered(sp[1])
        /\ wd.pc = "sleep"
        /\ \E sp2 \in Speakers :
              /\ sp2 # sp
              /\ NumFinalized(sp2[1], sp2[2]) >= 1
              /\ \E i \in 1..Len(emitted[sp[1]][sp[2]]),
                    j \in 1..Len(emitted[sp2[1]][sp2[2]]) :
                    /\ emitted[sp[1]][sp[2]][i].type = "finalize"
                    /\ emitted[sp2[1]][sp2[2]][j].type = "finalize"
                    /\ emitted[sp[1]][sp[2]][i].now = emitted[sp2[1]][sp2[2]][j].now

\* The frames of the callbacks waiting in the loop's queue for a speaker.
QueuedFor(session_id, user_id) ==
    LET mine == SelectSeq(ready, LAMBDA cb : cb[1] = session_id /\ cb[2] = user_id)
    IN  [i \in 1..Len(mine) |-> mine[i][3]]

\* C11: the frames _handle_audio_sync was run with for a speaker, followed by
\* the frames of that speaker still waiting in the loop's queue, are the
\* frames the packet router posted for that speaker, in the order it posted
\* them: none reordered, duplicated or lost.
C11_IngestionOrder ==
    \A session_id \in SessionIds, user_id \in Users :
        delivered[session_id][user_id] \o QueuedFor(session_id, user_id)
            = produced[session_id][user_id]

\* Two different frames of one speaker were processed in their order, with a
\* watchdog scan run meanwhile.
C11_Witness ==
    \E session_id \in SessionIds, user_id \in Users :
        /\ Len(delivered[session_id][user_id]) >= 2
        /\ delivered[session_id][user_id][1] # delivered[session_id][user_id][2]
        /\ wd.pc = "sleep" /\ wd.now >= 1

(***************************************************************************)
(* Playback: ownership of the writes, barge-in, and the playback flag.     *)
(***************************************************************************)
\* C12: every write to the session state is made by the event loop's
\* thread: no other thread, the player thread that calls the completion
\* callback included, writes a field of a VoiceSession.
C12_SingleOwnerWrites ==
    \A w \in writes : w[2] = "loop"

\* The entry is a call that stopped a playback in flight.
StopsPlayback(e) == e.type \in {"interrupt", "play_tts"} /\ e.stopped # 0

\* C13: once stop_playback has stopped a playback, no packet of that
\* playback is sent any more, and right after the call the session's
\* is_playing is False and nothing is in flight on its voice client.
C13_BargeIn ==
    \A s \in SessionIds : \A i \in 1..Len(playlog[s]) :
        StopsPlayback(playlog[s][i]) =>
            /\ \A j \in (i + 1)..Len(playlog[s]) :
                  ~(playlog[s][j].type = "packet"
                    /\ playlog[s][j].id = playlog[s][i].stopped)
            /\ i = Len(playlog[s]) =>
                  ~is_playing[SessionOf(s)] /\ player[SessionOf(s)] = 0

\* An interrupt has just stopped a playback that had sent a packet, and the
\* player thread has not called `after` yet.
C13_Witness ==
    \E s \in SessionIds :
        LET n == Len(playlog[s]) IN
        /\ n >= 2
        /\ playlog[s][n].type = "interrupt"
        /\ playlog[s][n].stopped # 0
        /\ playlog[s][n - 1] = PacketEntry(playlog[s][n].stopped)
        /\ [session |-> SessionOf(s), id |-> playlog[s][n].stopped] \in ending

\* The step is an interrupt request for session id s that found nothing to
\* stop.
IdleInterrupt(s) ==
    /\ Len(playlog'[s]) = Len(playlog[s]) + 1
    /\ playlog'[s][Len(playlog'[s])].type = "interrupt"
    /\ playlog'[s][Len(playlog'[s])].stopped = 0

\* C14: an interrupt request that finds no playback in flight (no bot yet,
\* an unknown session id, or a session that plays nothing) returns and
\* leaves the registry, the playback flags and players and the per-speaker
\* state as they were.
C14_InterruptNoOp ==
    [][\A s \in SessionIds :
          IdleInterrupt(s) =>
              UNCHANGED <<sessions, obj_session_id, is_playing, player, ending,
                          user_audio, user_last_speech, user_speaking,
                          tts_call, sidecarVars>>]_vars

\* Interrupts were handled before the bot existed, for an unknown session
\* id, and for a joined session that played nothing.
C14_Witness ==
    /\ \E i \in 1..Len(playlog["s1"]) :
          playlog["s1"][i] = InterruptEntry(0, FALSE, FALSE)
    /\ \E i \in 1..Len(playlog["s2"]) :
          playlog["s2"][i] = InterruptEntry(0, TRUE, FALSE)
    /\ \E i \in 1..Len(playlog["s1"]) :
          playlog["s1"][i] = InterruptEntry(0, TRUE, TRUE)

\* C15: a play_pcm call made while a playback is in flight on the session
\* starts the new audio.
C15_LastRequestWins ==
    \A s \in SessionIds : \A i \in 1..Len(playlog[s]) :
        (playlog[s][i].type = "play" /\ playlog[s][i].was # 0) =>
            playlog[s][i].started

\* The completion callback of a playback of the session has yet to run.
AfterPending(o) == \E e \in ending : e.session = o

\* C16: is_playing is True while a playback is in flight on the session,
\* and False when none is and no completion callback is pending.
C16_FlagAccurate ==
    \A o \in Objs :
        /\ player[o] # 0 => is_playing[o]
        /\ (player[o] = 0 /\ ~AfterPending(o)) => ~is_playing[o]

(***************************************************************************)
(* The control channel: connections, the ready message, framing and the    *)
(* dispatch of messages.                                                   *)
(***************************************************************************)
\* The client of connection c is connected and its handler is running.
Connected(c) == conn[c].state = "serving" /\ ~conn[c].eof

\* C17: while the client that connected last is connected, the server's
\* writer is that client's, so that every outbound message is written to
\* it; the end of an earlier connection's handler does not leave the server
\* without a writer.
C17_LatestClientIsWriter ==
    \A c \in Conns : (c = accepted /\ Connected(c)) => writer = c

\* C18: every accepted connection was sent ready once, as the first
\* message written to it, and nothing is written to a connection that was
\* not accepted.
C18_ReadyHandshake ==
    \A c \in Conns :
        IF c <= accepted
        THEN /\ sent[c] # << >>
             /\ sent[c][1] = "ready"
             /\ \A i \in 2..Len(sent[c]) : sent[c][i] # "ready"
        ELSE sent[c] = << >>

\* A second client was accepted after the first, and an outbound message
\* followed a ready.
C18_Witness ==
    /\ accepted = 2
    /\ \E c \in Conns : Len(sent[c]) >= 2
    /\ conn[1].state = "done"

\* The messages of the well-formed frames among frames, in order.
RECURSIVE WellFormedMessages(_)
WellFormedMessages(frames) ==
    IF frames = << >> THEN << >>
    ELSE (IF WellFormedFrame(Head(frames))
          THEN <<Decode(Head(frames).payload).members>>
          ELSE << >>) \o WellFormedMessages(Tail(frames))

\* The handler has read all the client sent and waits for more.
CaughtUp(c) ==
    conn[c].state = "serving" /\ conn[c].pc = "read" /\ wire[c] = << >>

\* C19: once the handler has read all that the client sent, it has passed
\* to _on_message the message of every well-formed frame sent, in order,
\* whatever protocol errors were sent between them.
C19_ProtocolErrorsLocal ==
    \A c \in Conns :
        CaughtUp(c) => handled[c] = WellFormedMessages(client_frames[c])

\* The types _handle_ipc_message has a case for.
KnownTypes == {TypeConfigure, TypeJoinVoice, TypeLeaveVoice, TypePlayTts,
               TypeInterrupt, TypeShutdown}

\* The step passes a message of unknown type, or without type, of
\* connection c to _on_message.
DispatchesUnknown(c) ==
    /\ Len(handled'[c]) = Len(handled[c]) + 1
    /\ DictGet(handled'[c][Len(handled'[c])], KeyType, << >>) \notin KnownTypes

\* C20: the dispatch of a message whose type is not a known one changes
\* neither the clients, the bot, the registry and the sessions nor the
\* shutdown flag, writes nothing to a connection, and leaves the handler in
\* its loop with the rest of its buffer.
C20_UnknownIgnored ==
    [][\A c \in Conns :
          DispatchesUnknown(c) =>
              /\ UNCHANGED <<sidecarVars, coreVars, playVars, ingestVars,
                             writer, sent, accepted>>
              /\ conn'[c] = [conn[c] EXCEPT !.buf =
                                SubSeq(@, HEADER_SIZE + Unpack(SubSeq(@, 1, HEADER_SIZE)) + 1,
                                       Len(@))]]_vars

\* With a session joined, a message of unknown type and one without type
\* were dispatched, and the shutdown message sent after them was handled.
C20_Witness ==
    /\ Len(handled[1]) = 3
    /\ handled[1][1] = << [k |-> KeyType, v |-> TypeOther] >>
    /\ handled[1][2] = << >>
    /\ Route(handled[1][3]) = "shutdown"
    /\ shutdown
    /\ sessions # << >>

(***************************************************************************)
(* Join requests and the errors reported to the host.                      *)
(***************************************************************************)
\* The voice_state messages the step passed to IpcServer.send.
NewNotices == SubSeq(notices', Len(notices) + 1, Len(notices'))

NoticeStates(seq) == [i \in 1..Len(seq) |-> seq[i].state]

\* The step is a join request for the session id: what it reported is about
\* that id and is not the report of a leave.
IsJoin(session_id) ==
    /\ NewNotices # << >>
    /\ \A i \in 1..Len(NewNotices) :
          /\ NewNotices[i].sessionId = session_id
          /\ NewNotices[i].state # "disconnected"

\* The step ends a play_tts request without having started a playback:
\* synthesize raised, or voice_client.play did.
PlayTtsFails ==
    tts_call.pc = "synth" /\ tts_call'.pc = "idle" /\ player' = player

\* C21: a join that fails and a play_tts whose synthesis or whose start of
\* playback fails each pass a failure message with a reason to the host.
C21_DomainErrorsSurfaced ==
    [][/\ \A s \in SessionIds :
             (IsJoin(s) /\ NewNotices[Len(NewNotices)].state = "error") =>
                 NewNotices[Len(NewNotices)].error # "none"
       /\ PlayTtsFails =>
             (NewNotices # << >> /\ NewNotices[Len(NewNotices)].error # "none")]_vars

JoinSequences ==
    {<<"error">>, <<"connecting", "connected">>, <<"connecting", "error">>}

IsEncoding(frame) ==
    \E msg \in TripMessages : FrameBytes(frame) = EncodeMessage(msg)

\* The messages whose encodings are among frames, in order.
RECURSIVE EncodedMessages(_)
EncodedMessages(frames) ==
    IF frames = << >> THEN << >>
    ELSE (IF IsEncoding(Head(frames))
          THEN <<CHOOSE msg \in TripMessages :
                     FrameBytes(Head(frames)) = EncodeMessage(msg)>>
          ELSE << >>) \o EncodedMessages(Tail(frames))

\* The header of an encoded message is the length of its payload, and the
\* payload decodes to the message.
EncodingDecodes(msg) ==
    LET bytes == EncodeMessage(msg)
        payload == SubSeq(bytes, HEADER_SIZE + 1, Len(bytes))
    IN  /\ Unpack(SubSeq(bytes, 1, HEADER_SIZE)) = Len(payload)
        /\ Decode(payload) = [ok |-> TRUE, members |-> msg]

RECURSIVE FinalizedAudio(_)
FinalizedAudio(log) ==
    IF log = << >> THEN << >>
    ELSE (IF Head(log).type = "finalize"
          THEN ConcatPcm(FromOnset(Head(log).frames)) ELSE << >>)
         \o FinalizedAudio(Tail(log))

\* The audio of the utterances of a log that on_transcript_ready was called
\* with, in order.
RECURSIVE HandedAudio(_)
HandedAudio(log) ==
    IF log = << >> THEN << >>
    ELSE (IF Head(log).type = "transcript_ready" THEN Head(log).audio ELSE << >>)
         \o HandedAudio(Tail(log))

\* The watchdog awaits the voice-activity notification of this speaker.
AwaitsVoiceActivity(o, u) ==
    wd.pc = "voice_activity" /\ wd.session = o /\ wd.user = u

\* C24: for sessions that stay joined, the audio appended to a speaker's
\* buffer and taken by the finalizations is the audio of the utterances
\* handed to on_transcript_ready, in order, followed by the utterance that
\* waits for the offset notification to return: nothing is lost, nothing is
\* handed over twice, also when the offset notification raises.
C24_AudioConservation ==
    \A sp \in Speakers :
        LET log == emitted[sp[1]][sp[2]] IN
        FinalizedAudio(log) =
            HandedAudio(log)
            \o (IF AwaitsVoiceActivity(sp[1], sp[2]) THEN wd.audio ELSE << >>)


InCallback == wd.pc \in {"voice_activity", "transcript_ready"}

\* The step ends a callback of a finalization otherwise than by the return
\* of on_voice_activity: on_voice_activity raised, or on_transcript_ready
\* returned or raised.
CallbackEnds ==
    InCallback /\ wd' # wd /\ wd' # [wd EXCEPT !.pc = "transcript_ready"]

\* The speakers the scan of watchdog w has not reached yet.
Remaining(w) ==
    {<<w.session, w.users[i]>> : i \in 1..Len(w.users)}
    \cup UNION {{<<w.sessions[i], user_id>> :
                    user_id \in {user_last_speech[w.sessions[i]][k].k :
                                    k \in 1..Len(user_last_speech[w.sessions[i]])}} :
                i \in 1..Len(w.sessions)}

\* The speaker has audio and has been silent for the threshold at time now.
Due(now, sp) ==
    /\ user_audio[sp[1]][sp[2]] # << >>
    /\ now - DictGet(user_last_speech[sp[1]], sp[2], 0) >= SILENCE_THRESHOLD_S

\* A speaker whose finalization is in its callbacks and who sent no frame
\* since is idle with an empty buffer.
FinalizedSpeakerIdle ==
    (InCallback /\ heard[wd.session][wd.user] = << >>) =>
        /\ user_audio[wd.session][wd.user] = << >>
        /\ ~user_speaking[wd.session][wd.user]
        /\ ~DictHas(user_last_speech[wd.session], wd.user)

\* The end of a callback leaves the state of its speaker as it is, and the
\* scan goes on: a speaker it has not reached yet and who is due is
\* finalized at the time of the scan, or no such speaker is left and the
\* watchdog sleeps for its interval.
WatchdogGoesOn ==
    CallbackEnds =>
        /\ user_audio'[wd.session][wd.user] = user_audio[wd.session][wd.user]
        /\ user_speaking'[wd.session][wd.user] = user_speaking[wd.session][wd.user]
        /\ DictHas(user_last_speech'[wd.session], wd.user)
              = DictHas(user_last_speech[wd.session], wd.user)
        /\ IF \E sp \in Remaining(wd) : Due(wd.now, sp)
           THEN /\ wd'.pc \in {"voice_activity", "transcript_ready"}
                /\ wd'.now = wd.now
                /\ <<wd'.session, wd'.user>> \in Remaining(wd)
                /\ Due(wd.now, <<wd'.session, wd'.user>>)
                /\ user_audio'[wd'.session][wd'.user] = << >>
           ELSE /\ wd'.pc = "sleep"
                /\ wd'.wake = clock + WATCHDOG_INTERVAL_S

\* C26: a callback of a finalization that fails does not stop the watchdog:
\* the speaker stays as the finalization left it, idle with an empty buffer
\* unless new frames came while the callback was awaited; the speakers the
\* scan has not reached yet are examined and finalized when due; and the
\* watchdog sleeps for its interval and scans again.
C26_WatchdogSurvives ==
    [](FinalizedSpeakerIdle) /\ [][WatchdogGoesOn]_vars

\* The finalizations of a log at scan time now.
FinalizedAt(log, now) ==
    {i \in 1..Len(log) : log[i].type = "finalize" /\ log[i].now = now}

\* The offset notification of speaker 1 of s1 raised in the scan at the
\* threshold; speaker 2 of s1 was finalized in the same scan and the speaker
\* of s2 in the next, and their utterances were handed over.
C26_Witness ==
    /\ FinalizedAt(emitted["s1"][1], SILENCE_THRESHOLD_S) # {}
    /\ CountOf(emitted["s1"][1], "transcript_ready") = 0
    /\ ~AwaitsVoiceActivity("s1", 1)
    /\ FinalizedAt(emitted["s1"][2], SILENCE_THRESHOLD_S) # {}
    /\ CountOf(emitted["s1"][2], "transcript_ready") = 1
    /\ FinalizedAt(emitted["s2"][1], SILENCE_THRESHOLD_S + 1) # {}
    /\ CountOf(emitted["s2"][1], "transcript_ready") = 1


\* The step calls on_voice_activity or on_transcript_ready for a speaker of
\* session object o.
EmitsEvent(o) ==
    \E u \in Users :
        \E i \in (Len(emitted[o][u]) + 1)..Len(emitted'[o][u]) :
            emitted'[o][u][i].type \in {"voice_activity", "transcript_ready"}

\* C25: no voice-activity notification and no utterance is emitted for a
\* session that is not in the registry, a session that a leave removed while
\* the watchdog was suspended in one of its finalization callbacks included.
C25_NoEventsAfterLeave ==
    [][\A o \in Objs : EmitsEvent(o) => Registered(o)]_vars

=============================================================================
